---------------------------- MODULE Spec2Model ----------------------------
(***************************************************************************)
(* A model of neutone_sdk/wavform_to_wavform.py: the class                 *)
(* WaveformToWaveformBase (forward-pass orchestration, default parameter   *)
(* remapping, default lifecycle hooks, preserved attributes and metadata   *)
(* assembly) as driven by one host, one call at a time.                    *)
(*                                                                         *)
(* Tensors are modelled by what the code reads of them: a waveform by its  *)
(* shape and whether all its samples are finite, a parameter buffer by its *)
(* rows of values.  The mean of a row is an exact reduced fraction         *)
(* <<numerator, denominator>>.  An Optional value is <<>> (None) or <<v>>. *)
(***************************************************************************)
EXTENDS Integers, Sequences, FiniteSets, TLC

\* ------------------------------------------------------------------ bounds
MaxParams == 2      \* a model declares 0..MaxParams parameters
MaxWidth == 2       \* buffers are up to MaxWidth samples wide
MaxAttrCalls == 2   \* calls of get_preserved_attributes on a shared base list

\* ---------------------------------------------------- values and tensors
None == <<>>
Some(v) == <<v>>

\* The validator accepts mono and stereo audio.
MaxChannels == 2

\* Parameter values are normalised: the two ends of the range.
ParamValues == {0, 1}

Names == <<"depth", "rate", "mix", "gain", "tone", "size">>

\* The tensors a host or a concrete model may hand over: one-, two- and
\* three-dimensional, with too few / too many channels, empty, non-finite.
Shapes ==
    {<<w>> : w \in 0..MaxWidth}
        \cup {<<c, w>> : c \in 0..(MaxChannels + 1), w \in 0..MaxWidth}
        \cup {<<1, c, 1>> : c \in 1..MaxChannels}

Waveforms == {[shape |-> s, finite |-> f] : s \in Shapes, f \in BOOLEAN}

\* neutone_sdk.utils.validate_waveform: (channels, samples), mono or stereo,
\* at least one sample, every sample finite.
ValidWaveform(t) ==
    /\ Len(t.shape) = 2
    /\ t.shape[1] \in 1..MaxChannels
    /\ t.shape[2] >= 1
    /\ t.finite

\* A [rows, width] buffer of parameter values, as the plugin sends it.
ParamBuffers ==
    UNION {[1..r -> [1..w -> ParamValues]] :
               r \in 0..(MaxParams + 1), w \in 1..MaxWidth}

\* The elements of a list.
Seq2Set(s) == {s[i] : i \in 1..Len(s)}

RECURSIVE SumSeq(_)
SumSeq(s) == IF s = <<>> THEN 0 ELSE Head(s) + SumSeq(Tail(s))

RECURSIVE GCD(_, _)
GCD(a, b) == IF b = 0 THEN a ELSE GCD(b, a % b)

Frac(n, d) == LET g == GCD(n, d) IN <<n \div g, d \div g>>

NaN == <<0, 0>>

\* A mean that reads the first sample only.
MeanOfFirstSample(row) == IF Len(row) = 0 THEN NaN ELSE Frac(row[1], 1)

\* Tensor.mean() of one row.
Mean(row) == IF Len(row) = 0 THEN NaN ELSE Frac(SumSeq(row), Len(row))

\* repeat(w, 1): the column stacked w times instead of widened.
RepeatRows(column, w) ==
    [i \in 1..(Len(column) * w) |-> column[((i - 1) % Len(column)) + 1]]

\* Tensor.repeat(1, w) of an [n, 1] column: every row is its value w times.
Repeat(column, w) == [i \in 1..Len(column) |-> [j \in 1..w |-> column[i][1]]]

Min(a, b) == IF a < b THEN a ELSE b


\* ------------------------------------------------------------------ state
VARIABLES
    parameters,            \* NeutoneModel.get_parameters(): the declared list
    core_metadata,         \* NeutoneModel.to_core_metadata()
    input_mono,            \* what is_input_mono() answers
    output_mono,           \* what is_output_mono() answers
    native_sample_rates,   \* what get_native_sample_rates() answers
    native_buffer_sizes,   \* what get_native_buffer_sizes() answers
    base_attrs,            \* the list super().get_preserved_attributes() hands out
    base_shares,           \* whether the base hands out that list itself or a copy
    attr_calls,            \* calls of get_preserved_attributes so far
    pc,                    \* where the host's current call stands: "idle", a
                           \* position inside forward, or "done"
    call,                  \* the frame of the current call, and once it is done
                           \* how it ended (err) and what it returned (ret)
    meta_log               \* the last two to_metadata() calls

model_vars ==
    <<parameters, core_metadata, input_mono, output_mono, native_sample_rates,
      native_buffer_sizes, base_attrs, base_shares>>

vars ==
    <<parameters, core_metadata, input_mono, output_mono, native_sample_rates,
      native_buffer_sizes, base_attrs, base_shares, attr_calls, pc, call, meta_log>>

\* A declared list of n parameters: unique names, one default value each.
\* Variant 0 declares the names in ascending order, variant 1 in descending
\* order; neighbouring parameters have different defaults.
Declared(n, v) ==
    [i \in 1..n |->
        [name |-> IF v = 0 THEN Names[i] ELSE Names[n + 1 - i],
         default_value |-> (i + v) % 2]]

DeclaredLists == {Declared(n, v) : n \in 0..MaxParams, v \in {0, 1}}

\* NeutoneModel.get_default_parameters(): an [n_params, 1] column.
get_default_parameters ==
    [i \in 1..Len(parameters) |-> <<parameters[i].default_value>>]

CoreFields ==
    {"model_name", "model_authors", "model_version", "model_short_description",
     "model_long_description", "technical_description", "technical_links",
     "tags", "citation", "is_experimental", "neutone_parameters",
     "wet_default_value", "dry_default_value", "output_gain_default_value",
     "sdk_version"}

\* Core metadata of release k of a model: every field holds a value of its own.
CoreMetadata(k) == [f \in CoreFields |-> <<f, k>>]

SampleRateLists == {<<>>, <<44100, 48000>>}
BufferSizeLists == {<<>>, <<512, 1024>>}
BufferSizeArgs == {0, 512, 1024, 2048}

BaseAttrs == <<"to_core_metadata", "get_parameters">>

NoCall ==
    [op |-> "none", arg |-> None, x |-> None, arg_params |-> None,
     params |-> None, mapped |-> None, received |-> None, y |-> None,
     trace |-> <<>>, err |-> "", ret |-> None]

\* The state after construction of a stereo-in, mono-out model that advertises
\* native sample rates and buffer sizes, over the parameter lists it may declare.
Init ==
    /\ parameters \in DeclaredLists
    /\ core_metadata = CoreMetadata(1)
    /\ input_mono = FALSE
    /\ output_mono = TRUE
    /\ native_sample_rates = <<44100, 48000>>
    /\ native_buffer_sizes = <<512, 1024>>
    /\ base_attrs = BaseAttrs
    /\ base_shares = FALSE
    /\ attr_calls = 0
    /\ pc = "idle"
    /\ call = NoCall
    /\ meta_log = <<>>

\* ------------------------------------------- remap_params_for_forward_pass
\* {param.name: value.mean() for param, value in zip(get_parameters(), params)}
\* zip stops at the shorter of the two; a later entry of a dict replaces an
\* earlier one of the same name.
RemapDict(decl, buf) ==
    LET n == Min(Len(decl), Len(buf))
        keys == {decl[i].name : i \in 1..n}
        lastAt(k) == CHOOSE i \in 1..n :
                        /\ decl[i].name = k
                        /\ \A j \in 1..n : decl[j].name = k => j <= i
    IN  [k \in keys |-> Mean(buf[lastAt(k)])]

\* An assert that lets extra rows through.
RemapAssertsAtLeast(decl, buf) == Len(buf) >= Len(decl)

\* The assert of line 86 passes.
RemapAsserts(decl, buf) == Len(buf) = Len(decl)

\* remap_params_for_forward_pass(params): [err, ret].
remap_params_for_forward_pass(decl, buf) ==
    IF RemapAsserts(decl, buf)
    THEN [err |-> "", ret |-> Some(RemapDict(decl, buf))]
    ELSE [err |-> "AssertionError", ret |-> None]

\* ----------------------------------------------------------------- forward
\* The call ends: by a raise (err) or by returning ret.
Finish(c, err, ret) ==
    /\ call' = [c EXCEPT !.err = err, !.ret = ret]
    /\ pc' = "done"

\* Lines 92-102: the call is entered; with params omitted the defaults are
\* repeated x.shape[1] times, which indexes the shape before any validation.
ForwardEnter ==
    /\ pc = "idle"
    /\ \E xin \in Waveforms, pin \in {None} \cup {Some(b) : b \in ParamBuffers} :
        LET c0 == [NoCall EXCEPT !.op = "forward", !.x = Some(xin),
                                 !.arg_params = pin] IN
        IF pin = None
        THEN IF Len(xin.shape) < 2
             THEN Finish(c0, "IndexError", None)
             ELSE /\ call' = [c0 EXCEPT
                                 !.params = Some(Repeat(get_default_parameters,
                                                        xin.shape[2]))]
                  /\ pc' = "validate_input"
        ELSE /\ call' = [c0 EXCEPT !.params = pin]
             /\ pc' = "validate_input"
    /\ UNCHANGED <<model_vars, attr_calls, meta_log>>

\* forward without the validation of its input.
ForwardValidateInputSkipped ==
    /\ pc = "validate_input"
    /\ call' = call
    /\ pc' = "remap"
    /\ UNCHANGED <<model_vars, attr_calls, meta_log>>

\* Line 103: validate_waveform(x).
ForwardValidateInput ==
    /\ pc = "validate_input"
    /\ LET c == [call EXCEPT !.trace = Append(@, "validate_input")] IN
       IF ValidWaveform(call.x[1])
       THEN /\ call' = c
            /\ pc' = "remap"
       ELSE Finish(c, "ValidationError", None)
    /\ UNCHANGED <<model_vars, attr_calls, meta_log>>

\* Line 105, the argument: self.remap_params_for_forward_pass(params).
ForwardRemap ==
    /\ pc = "remap"
    /\ LET r == remap_params_for_forward_pass(parameters, call.params[1])
           c == [call EXCEPT !.trace = Append(@, "remap"), !.mapped = r.ret]
       IN  IF r.err = ""
           THEN /\ call' = c
                /\ pc' = "do_forward_pass"
           ELSE Finish(c, r.err, None)
    /\ UNCHANGED <<model_vars, attr_calls, meta_log>>

\* Line 105, the call: the concrete model's do_forward_pass(x, mapping) answers
\* with any tensor, or raises.
ForwardDoForwardPass ==
    /\ pc = "do_forward_pass"
    /\ LET c == [call EXCEPT
                    !.trace = Append(@, "do_forward_pass"),
                    !.received = Some([x |-> call.x[1], params |-> call.mapped[1]])]
       IN  \/ \E out \in Waveforms :
                /\ call' = [c EXCEPT !.y = Some(out)]
                /\ pc' = "validate_output"
           \/ Finish(c, "ModelError", None)
    /\ UNCHANGED <<model_vars, attr_calls, meta_log>>

\* Line 107: validate_waveform(x) on the output.
ForwardValidateOutput ==
    /\ pc = "validate_output"
    /\ LET c == [call EXCEPT !.trace = Append(@, "validate_output")] IN
       IF ValidWaveform(call.y[1])
       THEN /\ call' = c
            /\ pc' = "return"
       ELSE Finish(c, "ValidationError", None)
    /\ UNCHANGED <<model_vars, attr_calls, meta_log>>

\* Line 108: return x.
ForwardReturn ==
    /\ pc = "return"
    /\ Finish([call EXCEPT !.trace = Append(@, "return")], "", call.y)
    /\ UNCHANGED <<model_vars, attr_calls, meta_log>>

\* A host calling the default remapping directly (lines 77-90).
CallRemap ==
    /\ pc = "idle"
    /\ \E b \in ParamBuffers :
        LET r == remap_params_for_forward_pass(parameters, b) IN
        Finish([NoCall EXCEPT !.op = "remap_params_for_forward_pass",
                              !.arg_params = Some(b), !.params = Some(b),
                              !.mapped = r.ret],
               r.err, r.ret)
    /\ UNCHANGED <<model_vars, attr_calls, meta_log>>

\* The host takes the outcome of the finished call and is free to call again.
Leave ==
    /\ pc = "done"
    /\ pc' = "idle"
    /\ call' = NoCall
    /\ UNCHANGED <<model_vars, attr_calls, meta_log>>

\* ------------------------------------------------------ lifecycle defaults
Returned(op, arg, ret) ==
    Finish([NoCall EXCEPT !.op = op, !.arg = arg], "", ret)

\* Lines 110-120.
calc_min_delay_samples ==
    /\ pc = "idle"
    /\ Returned("calc_min_delay_samples", None, 0)
    /\ UNCHANGED <<model_vars, attr_calls, meta_log>>

\* A set_buffer_size that accepts the sizes the model advertises.
set_buffer_size_native ==
    /\ pc = "idle"
    /\ \E n_samples \in BufferSizeArgs :
        Returned("set_buffer_size", Some(n_samples),
                 n_samples \in Seq2Set(native_buffer_sizes))
    /\ UNCHANGED <<model_vars, attr_calls, meta_log>>

\* Lines 122-135.
set_buffer_size ==
    /\ pc = "idle"
    /\ \E n_samples \in BufferSizeArgs :
        Returned("set_buffer_size", Some(n_samples), FALSE)
    /\ UNCHANGED <<model_vars, attr_calls, meta_log>>

\* Lines 137-148.
flush ==
    /\ pc = "idle"
    /\ Returned("flush", None, None)
    /\ UNCHANGED <<model_vars, attr_calls, meta_log>>

\* A reset that reports success.
reset_succeeds ==
    /\ pc = "idle"
    /\ Returned("reset", None, TRUE)
    /\ UNCHANGED <<model_vars, attr_calls, meta_log>>

\* Lines 150-160.
reset ==
    /\ pc = "idle"
    /\ Returned("reset", None, FALSE)
    /\ UNCHANGED <<model_vars, attr_calls, meta_log>>

Next ==
    \/ ForwardEnter
    \/ ForwardValidateInput
    \/ ForwardRemap
    \/ ForwardDoForwardPass
    \/ ForwardValidateOutput
    \/ ForwardReturn
    \/ CallRemap
    \/ calc_min_delay_samples
    \/ set_buffer_size
    \/ flush
    \/ reset
    \/ Leave

Spec == Init /\ [][Next]_vars

\* ---------------------------------------------------------------- metadata
\* What to_metadata() reads of the model.
MetadataSources ==
    [core |-> core_metadata, is_input_mono |-> input_mono,
     is_output_mono |-> output_mono, native_sample_rates |-> native_sample_rates,
     native_buffer_sizes |-> native_buffer_sizes]

\* The record with the two native lists given to each other's keyword.
MetadataListsSwapped(core, in_mono, out_mono, buffer_sizes, sample_rates) ==
    [f \in CoreFields |-> core[f]] @@
    [is_input_mono |-> in_mono, is_output_mono |-> out_mono,
     native_buffer_sizes |-> sample_rates, native_sample_rates |-> buffer_sizes]

\* Lines 179-200: WaveformToWaveformMetadata(...), keyword by keyword.
WaveformToWaveformMetadata(core, in_mono, out_mono, buffer_sizes, sample_rates) ==
    [model_name |-> core.model_name,
     model_authors |-> core.model_authors,
     model_short_description |-> core.model_short_description,
     model_long_description |-> core.model_long_description,
     neutone_parameters |-> core.neutone_parameters,
     wet_default_value |-> core.wet_default_value,
     dry_default_value |-> core.dry_default_value,
     output_gain_default_value |-> core.output_gain_default_value,
     technical_description |-> core.technical_description,
     technical_links |-> core.technical_links,
     tags |-> core.tags,
     model_version |-> core.model_version,
     sdk_version |-> core.sdk_version,
     citation |-> core.citation,
     is_experimental |-> core.is_experimental,
     is_input_mono |-> in_mono,
     is_output_mono |-> out_mono,
     native_buffer_sizes |-> buffer_sizes,
     native_sample_rates |-> sample_rates]

\* The last two entries of the log, the new one included.
Logged(log, e) == IF Len(log) < 2 THEN Append(log, e) ELSE <<log[2], e>>

\* A to_metadata that keeps the record of its first call.
to_metadata_cached ==
    /\ pc = "idle"
    /\ LET rec == IF meta_log = <<>>
                  THEN WaveformToWaveformMetadata(core_metadata, input_mono,
                           output_mono, native_buffer_sizes, native_sample_rates)
                  ELSE meta_log[Len(meta_log)].rec
       IN  /\ Returned("to_metadata", None, Some(rec))
           /\ meta_log' = Logged(meta_log, [rec |-> rec, sources |-> MetadataSources])
    /\ UNCHANGED <<model_vars, attr_calls>>

\* Lines 177-200.
to_metadata ==
    /\ pc = "idle"
    /\ LET rec == WaveformToWaveformMetadata(core_metadata, input_mono,
                      output_mono, native_buffer_sizes, native_sample_rates)
       IN  /\ Returned("to_metadata", None, Some(rec))
           /\ meta_log' = Logged(meta_log, [rec |-> rec, sources |-> MetadataSources])
    /\ UNCHANGED <<model_vars, attr_calls>>

\* Lines 39-65: the answers of the abstract queries belong to the concrete
\* model, which may answer differently from one call to the next.
Reconfigure ==
    /\ pc = "idle"
    /\ input_mono' \in BOOLEAN
    /\ output_mono' \in BOOLEAN
    /\ native_sample_rates' \in SampleRateLists
    /\ native_buffer_sizes' \in BufferSizeLists
    /\ UNCHANGED <<parameters, core_metadata, base_attrs, base_shares, attr_calls,
                   pc, call, meta_log>>

\* ------------------------------------------------------ preserved attributes
\* The list without flush.
PreservedNamesWithoutFlush ==
    <<"get_native_sample_rates", "get_native_buffer_sizes",
      "calc_min_delay_samples", "set_buffer_size", "reset", "to_metadata">>

\* Lines 165-173: the names the layer adds.
PreservedNames ==
    <<"get_native_sample_rates", "get_native_buffer_sizes",
      "calc_min_delay_samples", "set_buffer_size", "flush", "reset",
      "to_metadata">>

\* Lines 162-175: extend() grows the very list the base handed out; when the
\* base hands out its own list rather than a copy, that list grows with it.
get_preserved_attributes ==
    /\ pc = "idle"
    /\ attr_calls < MaxAttrCalls
    /\ LET preserved_attrs == base_attrs \o PreservedNames IN
        /\ Returned("get_preserved_attributes", Some(base_attrs),
                    Some(preserved_attrs))
        /\ base_attrs' = IF base_shares THEN preserved_attrs ELSE base_attrs
    /\ attr_calls' = attr_calls + 1
    /\ UNCHANGED <<parameters, core_metadata, input_mono, output_mono,
                   native_sample_rates, native_buffer_sizes, base_shares, meta_log>>

\* The state after construction, over the models the metadata can describe.
InitMeta ==
    /\ parameters = Declared(MaxParams, 0)
    /\ core_metadata \in {CoreMetadata(1), CoreMetadata(2)}
    /\ input_mono \in BOOLEAN
    /\ output_mono \in BOOLEAN
    /\ native_sample_rates \in SampleRateLists
    /\ native_buffer_sizes \in BufferSizeLists
    /\ base_attrs = BaseAttrs
    /\ base_shares \in BOOLEAN
    /\ attr_calls = 0
    /\ pc = "idle"
    /\ call = NoCall
    /\ meta_log = <<>>

NextMeta ==
    \/ to_metadata
    \/ get_preserved_attributes
    \/ Reconfigure
    \/ Leave

SpecMeta == InitMeta /\ [][NextMeta]_vars

\* ------------------------------------------------------------- properties
IsPrefix(s, t) == Len(s) <= Len(t) /\ SubSeq(t, 1, Len(s)) = s

ForwardOrder ==
    <<"validate_input", "remap", "do_forward_pass", "validate_output", "return">>

InForward == call.op = "forward"

Invoked == "do_forward_pass" \in Seq2Set(call.trace)

\* C1: in every call of forward the steps validate input, remap, do_forward_pass,
\* validate output, return occur in this order, each at most once; do_forward_pass
\* is invoked only on the x that passed validation, and what forward returns is
\* the validated output of do_forward_pass.
C1_ForwardOrder ==
    InForward =>
        /\ IsPrefix(call.trace, ForwardOrder)
        /\ Invoked =>
              /\ ValidWaveform(call.x[1])
              /\ call.received # None
              /\ call.received[1].x = call.x[1]
        /\ (pc = "done" /\ call.err = "") =>
              /\ call.trace = ForwardOrder
              /\ call.ret = call.y
              /\ ValidWaveform(call.ret[1])

C1_Witness ==
    /\ pc = "done"
    /\ InForward
    /\ call.err = ""
    /\ call.trace = ForwardOrder

\* C2: whenever x fails validation (params supplied or omitted), and whenever the
\* tensor do_forward_pass returned fails validation, forward ends with a
\* validation error and returns no result.
C2_InvalidEndsInValidationError ==
    (pc = "done" /\ InForward) =>
        /\ ~ValidWaveform(call.x[1]) =>
              (call.err = "ValidationError" /\ call.ret = None)
        /\ (call.y # None /\ ~ValidWaveform(call.y[1])) =>
              (call.err = "ValidationError" /\ call.ret = None)

RowMismatch ==
    /\ call.arg_params # None
    /\ Len(call.arg_params[1]) # Len(parameters)

\* C4: on a buffer with more or fewer rows than declared parameters the default
\* remap_params_for_forward_pass raises an assertion error and returns no
\* mapping; forward called with such a buffer never invokes do_forward_pass.
C4_RowMismatchRaises ==
    /\ (pc = "done" /\ call.op = "remap_params_for_forward_pass" /\ RowMismatch) =>
          (call.err = "AssertionError" /\ call.ret = None /\ call.mapped = None)
    /\ (InForward /\ RowMismatch) =>
          /\ ~Invoked
          /\ call.received = None
          /\ "remap" \in Seq2Set(call.trace) =>
                (pc = "done" /\ call.err = "AssertionError" /\ call.mapped = None)
          /\ pc = "done" => call.ret = None

C4_Witness ==
    /\ pc = "done"
    /\ InForward
    /\ RowMismatch
    /\ Len(call.arg_params[1]) > Len(parameters)
    /\ call.err = "AssertionError"

LifecycleOps == {"calc_min_delay_samples", "set_buffer_size", "flush", "reset"}

\* C5: on a model that overrides none of them, after any sequence of calls
\* set_buffer_size(n) returns false for every n, reset() returns false, flush()
\* returns None and calc_min_delay_samples() returns 0; none raises and none
\* changes the state of the model.
C5_LifecycleDefaults ==
    /\ [](pc = "done" =>
            /\ call.op \in LifecycleOps => call.err = ""
            /\ call.op = "set_buffer_size" => call.ret = FALSE
            /\ call.op = "reset" => call.ret = FALSE
            /\ call.op = "flush" => call.ret = None
            /\ call.op = "calc_min_delay_samples" => call.ret = 0)
    /\ [][(pc = "idle" /\ call'.op \in LifecycleOps) => UNCHANGED model_vars]_vars

C5_Witness ==
    /\ pc = "done"
    /\ call.op = "flush"
    /\ call.ret = None

NativeSizeRequested ==
    /\ pc = "done"
    /\ call.op = "set_buffer_size"
    /\ native_buffer_sizes # <<>>
    /\ call.arg[1] \in Seq2Set(native_buffer_sizes)

\* C6 as stated: set_buffer_size(n) returns true for every n of a non-empty
\* get_native_buffer_sizes().
C6_NativeSizeAccepted == NativeSizeRequested => call.ret = TRUE

\* C6 as amended: on a model that does not override set_buffer_size, it returns
\* false, without raising, also for every n of a non-empty
\* get_native_buffer_sizes().
C6_NativeSizeStillUnsupported ==
    NativeSizeRequested => (call.ret = FALSE /\ call.err = "")

C6_Witness == NativeSizeRequested /\ call.arg[1] = 1024


MetadataDone == pc = "done" /\ call.op = "to_metadata"

\* C7: every field of the record to_metadata() returns equals its source at the
\* time of the call: the fifteen core fields the same-named field of the core
\* metadata, the mono flags and the native lists the model's own answers.
C7_MetadataFieldsCopied ==
    MetadataDone =>
        LET m == call.ret[1] IN
        /\ DOMAIN m = CoreFields \cup {"is_input_mono", "is_output_mono",
                                       "native_sample_rates", "native_buffer_sizes"}
        /\ \A f \in CoreFields : m[f] = core_metadata[f]
        /\ m.is_input_mono = input_mono
        /\ m.is_output_mono = output_mono
        /\ m.native_sample_rates = native_sample_rates
        /\ m.native_buffer_sizes = native_buffer_sizes

C7_Witness ==
    /\ MetadataDone
    /\ input_mono # output_mono
    /\ native_sample_rates # <<>>
    /\ native_buffer_sizes # <<>>

\* C8: two successive calls of to_metadata() return equal records when the model
\* state is the same at both, and different records (the later one that of the
\* new state) when it is not; to_metadata() itself changes no model state.
C8_MetadataNotCached ==
    /\ [](Len(meta_log) = 2 =>
            /\ (meta_log[1].sources = meta_log[2].sources)
                   <=> (meta_log[1].rec = meta_log[2].rec)
            /\ meta_log[2].rec.native_buffer_sizes =
                   meta_log[2].sources.native_buffer_sizes
            /\ meta_log[2].rec.is_input_mono = meta_log[2].sources.is_input_mono)
    /\ [][(pc = "idle" /\ call'.op = "to_metadata") => UNCHANGED model_vars]_vars

C8_Witness ==
    /\ MetadataDone
    /\ Len(meta_log) = 2
    /\ meta_log[1].sources = meta_log[2].sources
    /\ meta_log[1].rec = meta_log[2].rec

\* C9: get_preserved_attributes() returns the base facility's list, none of its
\* entries removed, followed by the seven names of this layer, on every call.
C9_PreservedAttributes ==
    (pc = "done" /\ call.op = "get_preserved_attributes") =>
        LET r == call.ret[1]
            b == call.arg[1]
        IN  /\ IsPrefix(b, r)
            /\ IsPrefix(BaseAttrs, r)
            /\ SubSeq(r, Len(b) + 1, Len(r)) =
                   <<"get_native_sample_rates", "get_native_buffer_sizes",
                     "calc_min_delay_samples", "set_buffer_size", "flush",
                     "reset", "to_metadata">>
            /\ {"get_native_sample_rates", "get_native_buffer_sizes",
                "calc_min_delay_samples", "set_buffer_size", "flush", "reset",
                "to_metadata"} \subseteq Seq2Set(r)

C9_Witness ==
    /\ pc = "done"
    /\ call.op = "get_preserved_attributes"
    /\ attr_calls = 2
    /\ base_shares

\* C10: on a buffer with exactly one row per declared parameter the default
\* remap_params_for_forward_pass returns one entry per declared parameter, keyed
\* by its name, whose value is the arithmetic mean of the row at the parameter's
\* position; the buffer the caller passed is left as it was.
C10_RemapIsMeanByPosition ==
    (call.mapped # None /\ Len(call.params[1]) = Len(parameters)) =>
        LET m == call.mapped[1]
            buf == call.params[1]
        IN  /\ DOMAIN m = {parameters[i].name : i \in 1..Len(parameters)}
            /\ Cardinality(DOMAIN m) = Len(parameters)
            /\ \A i \in 1..Len(parameters) :
                  LET v == m[parameters[i].name] IN
                  /\ v[2] > 0
                  /\ v[1] * Len(buf[i]) = v[2] * SumSeq(buf[i])
            /\ call.arg_params # None => call.params = call.arg_params

C10_Witness ==
    /\ pc = "done"
    /\ call.op = "remap_params_for_forward_pass"
    /\ call.err = ""
    /\ Len(parameters) = 2
    /\ call.params[1] = <<(<<0, 1>>), (<<1, 1>>)>>
    /\ call.mapped[1][parameters[1].name] = <<1, 2>>
    /\ call.mapped[1][parameters[2].name] = <<1, 1>>

=============================================================================
